---- MODULE Spec2Model ----
(***************************************************************************)
(* A model of sopel/modules/tld.py: the WikipediaTLDListParser table       *)
(* extractor and indexer, the two TLD caches with their 7-day refresh      *)
(* (_update_tld_data, update_caches) and the .tld command (gettld).        *)
(*                                                                         *)
(* Text is modelled by TLA+ strings, on which TLC evaluates Len, \o,       *)
(* SubSeq, Head and Tail.  TLA+ strings are ASCII, so the few non-ASCII    *)
(* characters the code handles are written with one-character stand-ins:   *)
(*    "~"  U+2014 EM DASH, the placeholder of an empty table cell          *)
(*    "_"  U+2026 HORIZONTAL ELLIPSIS, in the truncation marker            *)
(*    "%"  U+0440 and "&" U+0444, the two Cyrillic letters of one IDN TLD  *)
(*    "^"  0x02 (formatting.CONTROL_BOLD)                                  *)
(*    "@"  0x1D (formatting.CONTROL_ITALIC)                                *)
(***************************************************************************)
EXTENDS Integers, Sequences, FiniteSets, TLC

VARIABLES
    \* ---- WikipediaTLDListParser under an event stream (SpecParser) ----
    parser,          \* the parser object's fields
    parser_exc,      \* exception raised out of feed(), "none" if none
    doc,             \* where the event stream stands (history of the input)
    \* ---- bot.memory, the clock and the running callables (Spec) ----
    now,             \* datetime.now(), in ticks since 2000-01-01 00:00:00
    memory,          \* bot.memory: the two caches and their timestamps
    pc,              \* per thread: the line it stands at
    frame,           \* per thread: local variables of the running callable
    io,              \* what the last step did outside: a GET, a reply, a raise
    \* ---- the indexer and the field order on given tables (SpecIndex) ----
    processed,       \* what get_processed_data returned, or that it raised
    field_order,     \* gettld's sorted list of a record's field names
    \* ---- the plugin's values in the bot's database (SpecPersist) ----
    db,              \* bot.db: the plugin values of 'tld'
    plugin           \* whether the plugin is set up, and what it held when
                     \* it was last shut down

pvars == <<parser, parser_exc, doc>>
mvars == <<now, memory, pc, frame, io>>
xvars == <<processed, field_order>>
dvars == <<db, plugin>>
vars == <<parser, parser_exc, doc, now, memory, pc, frame, io,
          processed, field_order, db, plugin>>

-----------------------------------------------------------------------------
(* Text helpers: Python's str methods, computed character by character.    *)

Char(s, i) == SubSeq(s, i, i)

UpperAlpha == "ABCDEFGHIJKLMNOPQRSTUVWXYZ"
LowerAlpha == "abcdefghijklmnopqrstuvwxyz"
Digits == "0123456789"

InStr(c, s) == \E i \in 1..Len(s) : Char(s, i) = c

LowerChar(c) ==
    IF InStr(c, UpperAlpha)
    THEN Char(LowerAlpha, CHOOSE i \in 1..26 : Char(UpperAlpha, i) = c)
    ELSE c

\* str.lower(), on the halves of s so that the evaluation stays shallow.
RECURSIVE Lower(_)
Lower(s) ==
    IF s = "" THEN ""
    ELSE IF Len(s) = 1 THEN LowerChar(s)
    ELSE LET mid == Len(s) \div 2
         IN  Lower(SubSeq(s, 1, mid)) \o Lower(SubSeq(s, mid + 1, Len(s)))

CONTROL_BOLD == "^"
CONTROL_ITALIC == "@"

\* str.isspace(): the ASCII white space and the separators 0x1C-0x1F, of
\* which the model's alphabet holds 0x1D.
Whitespace == " \n\t" \o CONTROL_ITALIC

IsSpace(c) == InStr(c, Whitespace)

\* str.lstrip(chars), str.rstrip(chars) and str.strip(chars)
RECURSIVE LStrip(_, _)
LStrip(s, chars) ==
    IF s # "" /\ InStr(Head(s), chars) THEN LStrip(Tail(s), chars) ELSE s

RECURSIVE RStrip(_, _)
RStrip(s, chars) ==
    IF s # "" /\ InStr(Char(s, Len(s)), chars)
    THEN RStrip(SubSeq(s, 1, Len(s) - 1), chars)
    ELSE s

Strip(s, chars) == RStrip(LStrip(s, chars), chars)

StartsWith(s, prefix) ==
    Len(s) >= Len(prefix) /\ SubSeq(s, 1, Len(prefix)) = prefix

Contains(s, sub) ==
    \E i \in 1..(Len(s) - Len(sub) + 1) : SubSeq(s, i, i + Len(sub) - 1) = sub

\* str.find(sub), counted from 1: 0 when sub does not occur in s.
Find(s, sub) ==
    LET at == {i \in 1..(Len(s) - Len(sub) + 1) : SubSeq(s, i, i + Len(sub) - 1) = sub}
    IN  IF at = {} THEN 0 ELSE CHOOSE i \in at : \A j \in at : i <= j

\* str.replace(old, new), occurrence by occurrence from the left.
RECURSIVE Replace(_, _, _)
Replace(s, old, new) ==
    LET at == Find(s, old) IN
    IF at = 0 THEN s
    ELSE SubSeq(s, 1, at - 1) \o new
         \o Replace(SubSeq(s, at + Len(old), Len(s)), old, new)

\* The longest prefix of s made of characters of chars (a regex class+),
\* and of characters outside chars.
Span(s, chars) ==
    LET stops == {i \in 1..Len(s) : ~InStr(Char(s, i), chars)}
    IN  IF stops = {} THEN s
        ELSE SubSeq(s, 1, (CHOOSE i \in stops : \A j \in stops : i <= j) - 1)

SpanNot(s, chars) ==
    LET stops == {i \in 1..Len(s) : InStr(Char(s, i), chars)}
    IN  IF stops = {} THEN s
        ELSE SubSeq(s, 1, (CHOOSE i \in stops : \A j \in stops : i <= j) - 1)

-----------------------------------------------------------------------------
(* WikipediaTLDListParser.  HTMLParser tokenizes the markup and calls the  *)
(* three handlers in document order; the model starts from that event      *)
(* stream.  A handler maps the parser's fields to their new values and the *)
(* exception it raises ("none" when it returns).                           *)

BOLD_PLACEHOLDER == "<[bold]>"
ITALIC_PLACEHOLDER == "<[italic]>"

ParserInit ==
    [in_cell |-> FALSE, skipping |-> TRUE, current_row |-> <<>>,
     current_cell |-> "", rows |-> <<>>, tables |-> <<>>]

Returns(p) == [p |-> p, exc |-> "none"]

\* An attribute of a start tag.  HTMLParser gives (name, None) for an
\* attribute written without a value: hasValue is FALSE then.
Attr(name, value) == [name |-> name, value |-> value, hasValue |-> TRUE]
BareAttr(name) == [name |-> name, value |-> "", hasValue |-> FALSE]

\* The loop of lines 100-102 over a table's attributes: the value of
\* skipping after it, and TypeError when 'wikitable' in None is evaluated.
RECURSIVE TableAttrs(_, _)
TableAttrs(attrs, skipping) ==
    IF attrs = <<>> THEN [skipping |-> skipping, exc |-> "none"]
    ELSE LET a == Head(attrs) IN
         IF a.name # "class" THEN TableAttrs(Tail(attrs), skipping)
         ELSE IF ~a.hasValue THEN [skipping |-> skipping, exc |-> "TypeError"]
         ELSE IF Contains(a.value, "wikitable") THEN TableAttrs(Tail(attrs), FALSE)
         ELSE TableAttrs(Tail(attrs), skipping)

handle_starttag(p, tag, attrs) ==
    IF tag = "td" \/ tag = "th" THEN Returns([p EXCEPT !.in_cell = TRUE])
    ELSE IF tag = "sup" THEN Returns([p EXCEPT !.skipping = TRUE])
    ELSE IF tag = "table" THEN
        LET r == TableAttrs(attrs, p.skipping)
        IN  [p |-> [p EXCEPT !.skipping = r.skipping], exc |-> r.exc]
    ELSE IF tag \in {"b", "strong"} /\ p.in_cell THEN
        Returns([p EXCEPT !.current_cell = @ \o BOLD_PLACEHOLDER])
    ELSE IF tag \in {"i", "em"} /\ p.in_cell THEN
        Returns([p EXCEPT !.current_cell = @ \o ITALIC_PLACEHOLDER])
    ELSE Returns(p)

\* Lines 112-121: the cell's text as it is stored in the row.
CellText(current_cell) ==
    Replace(Replace(Strip(current_cell, Whitespace),
                    BOLD_PLACEHOLDER, CONTROL_BOLD),
            ITALIC_PLACEHOLDER, CONTROL_ITALIC)

handle_endtag(p, tag) ==
    IF tag = "td" \/ tag = "th" THEN
        Returns([p EXCEPT !.in_cell = FALSE,
                          !.current_row =
                              IF ~p.skipping
                              THEN Append(@, CellText(p.current_cell))
                              ELSE @,
                          !.current_cell = ""])
    ELSE IF tag = "tr" THEN
        Returns([p EXCEPT !.rows = IF ~p.skipping
                                   THEN Append(@, p.current_row)
                                   ELSE @,
                          !.current_row = <<>>])
    ELSE IF tag = "table" THEN
        Returns([p EXCEPT !.tables = IF ~p.skipping
                                     THEN Append(@, p.rows)
                                     ELSE @,
                          !.rows = <<>>,
                          !.skipping = TRUE,
                          !.in_cell = FALSE])
    ELSE IF tag = "sup" /\ p.in_cell THEN Returns([p EXCEPT !.skipping = FALSE])
    ELSE IF tag \in {"b", "strong"} /\ p.in_cell THEN
        Returns([p EXCEPT !.current_cell = @ \o BOLD_PLACEHOLDER])
    ELSE IF tag \in {"i", "em"} /\ p.in_cell THEN
        Returns([p EXCEPT !.current_cell = @ \o ITALIC_PLACEHOLDER])
    ELSE Returns(p)

handle_data(p, data) ==
    IF p.in_cell /\ ~p.skipping
    THEN Returns([p EXCEPT !.current_cell = @ \o data])
    ELSE Returns(p)

\* One event of the stream, dispatched as HTMLParser does.
StartTag(tag, attrs) == [kind |-> "start", tag |-> tag, attrs |-> attrs, data |-> ""]
EndTag(tag) == [kind |-> "end", tag |-> tag, attrs |-> <<>>, data |-> ""]
Data(text) == [kind |-> "data", tag |-> "", attrs |-> <<>>, data |-> text]

Dispatch(p, ev) ==
    IF ev.kind = "start" THEN handle_starttag(p, ev.tag, ev.attrs)
    ELSE IF ev.kind = "end" THEN handle_endtag(p, ev.tag)
    ELSE handle_data(p, ev.data)

\* parser.feed(markup) on a whole document: the handlers in order, stopped
\* by the first exception.  The events are fed as two halves, one after the
\* other, so that the evaluation stays shallow.
RECURSIVE feed(_, _)
feed(p, events) ==
    IF events = <<>> THEN Returns(p)
    ELSE IF Len(events) = 1 THEN Dispatch(p, Head(events))
    ELSE LET mid == Len(events) \div 2
             r == feed(p, SubSeq(events, 1, mid))
         IN  IF r.exc # "none" THEN r
             ELSE feed(r.p, SubSeq(events, mid + 1, Len(events)))

-----------------------------------------------------------------------------
(* Python dicts keep insertion order: a dict is the sequence of its items. *)

Item(k, v) == [key |-> k, value |-> v]

DictHas(d, k) == \E i \in 1..Len(d) : d[i].key = k

DictGet(d, k) == d[CHOOSE i \in 1..Len(d) : d[i].key = k].value

\* d[k] = v: a new key goes last, a known key keeps its place.
RECURSIVE DictSet(_, _, _)
DictSet(d, k, v) ==
    IF d = <<>> THEN <<Item(k, v)>>
    ELSE IF Head(d).key = k THEN <<Item(k, v)>> \o Tail(d)
    ELSE <<Head(d)>> \o DictSet(Tail(d), k, v)

Keys(d) == [i \in 1..Len(d) |-> d[i].key]

Min(a, b) == IF a < b THEN a ELSE b

\* dict(zip(headings, row))
RECURSIVE ZipDict(_, _, _)
ZipDict(headings, row, d) ==
    IF headings = <<>> \/ row = <<>> THEN d
    ELSE ZipDict(Tail(headings), Tail(row), DictSet(d, Head(headings), Head(row)))

EM_DASH == "~"

\* Lines 181-186 without the comparison with the dash.
DropEmptyOnly(d) == SelectSeq(d, LAMBDA item : item.value # "")

\* Lines 181-186: the items whose value is neither empty nor the dash.
RECURSIVE DropEmpty(_)
DropEmpty(d) ==
    IF d = <<>> THEN <<>>
    ELSE IF Head(d).value # "" /\ Head(d).value # EM_DASH
         THEN <<Head(d)>> \o DropEmpty(Tail(d))
         ELSE DropEmpty(Tail(d))

Alnum == UpperAlpha \o LowerAlpha \o Digits

\* r_tld = ^\.(\S+) : group 1 of the match, "" when the cell does not match.
r_tld(cell) ==
    IF StartsWith(cell, ".") THEN SpanNot(Tail(cell), Whitespace) ELSE ""

\* r_idn = ^(xn--[A-Za-z0-9]+) : group 1 of the match, "" when none.
r_idn(cell) ==
    IF StartsWith(cell, "xn--") /\ Span(SubSeq(cell, 5, Len(cell)), Alnum) # ""
    THEN "xn--" \o Span(SubSeq(cell, 5, Len(cell)), Alnum)
    ELSE ""

\* Lines 159-167: the two lookup keys of a row, "" standing for None (a key
\* that is set is never empty).
RECURSIVE RowKeys(_, _, _)
RowKeys(row, key, idn_key) ==
    IF row = <<>> THEN [key |-> key, idn_key |-> idn_key]
    ELSE LET cell == Head(row)
             tld == r_tld(cell)
             idn == r_idn(cell)
         IN  RowKeys(Tail(row),
                     IF tld # "" /\ key = "" THEN Lower(tld) ELSE key,
                     IF idn # "" /\ idn_key = "" THEN Lower(idn) ELSE idn_key)

\* Lines 158-190 for the data rows of one table.
RECURSIVE IndexRows(_, _, _)
IndexRows(headings, rows, tld_list) ==
    IF rows = <<>> THEN tld_list
    ELSE LET row == Head(rows)
             k == RowKeys(row, "", "")
             zipped == DropEmpty(ZipDict(headings, row, <<>>))
             with_key == IF k.key # "" THEN DictSet(tld_list, k.key, zipped)
                         ELSE tld_list
             with_idn == IF k.idn_key # "" THEN DictSet(with_key, k.idn_key, zipped)
                         ELSE with_key
         IN  IF k.key = "" /\ k.idn_key = ""
             THEN IndexRows(headings, Tail(rows), tld_list)
             ELSE IndexRows(headings, Tail(rows), with_idn)

\* Lines 155-195: the index built from the extracted tables, and IndexError
\* when headings = table[0] is evaluated on a table that has no row.
RECURSIVE IndexTables(_, _)
IndexTables(tables, tld_list) ==
    IF tables = <<>> THEN [value |-> tld_list, exc |-> "none"]
    ELSE LET table == Head(tables) IN
         IF table = <<>> THEN [value |-> <<>>, exc |-> "IndexError"]
         ELSE IndexTables(Tail(tables),
                          IndexRows(Head(table), Tail(table), tld_list))

get_processed_data(p) == IndexTables(p.tables, <<>>)

-----------------------------------------------------------------------------
(* The parser under an event stream (SpecParser).  The stream is any       *)
(* document in which tables are not nested, a cell opens inside a table    *)
(* and is closed before the next cell opens, and a <sup> element holds     *)
(* only text and further <sup> elements and is closed before the element   *)
(* around it closes; end tags of rows and cells may be left out, as HTML   *)
(* allows.  doc records where the stream stands, independently of the      *)
(* parser's own flags, how much of the bounds it has used, and how many    *)
(* cells have closed in the current table since its last </tr>.            *)

MaxTables == 2
MaxCells == 2
MaxRows == 2
MaxData == 2
MaxSups == 2
MaxInline == 1

DocStart ==
    [table |-> "none", in_td |-> FALSE, sup |-> 0, sup_closed |-> FALSE,
     n_tables |-> 0, n_cells |-> 0, n_rows |-> 0, n_data |-> 0, n_sups |-> 0,
     n_inline |-> 0, row_cells |-> 0]

WIKITABLE == <<Attr("class", "wikitable sortable")>>
PLAIN_TABLES == {<<>>, <<Attr("class", "infobox")>>, <<Attr("id", "wikitable")>>}
VALUELESS_CLASS == <<BareAttr("class")>>

CellTags == {"td", "th"}
InlineTags == {"b", "strong", "i", "em"}
OtherTags == {"tr", "caption"}

\* The text of a data event says where in the document it occurs: "s" in a
\* <sup> element, "p" in a table that is not a wikitable, "q" in both.
TextAt(d) ==
    IF d.sup > 0 THEN (IF d.table = "plain" THEN {"q"} ELSE {"s"})
    ELSE IF d.table = "plain" THEN {"p"}
    ELSE {"a", " b"}

Fed(r, d) ==
    /\ parser_exc = "none"
    /\ parser' = r.p
    /\ parser_exc' = r.exc
    /\ doc' = d
    /\ UNCHANGED <<mvars, xvars, dvars>>

StartTable(attrs, kind) ==
    /\ doc.table = "none" /\ doc.sup = 0 /\ doc.n_tables < MaxTables
    /\ Fed(handle_starttag(parser, "table", attrs),
           [doc EXCEPT !.table = kind, !.sup_closed = FALSE, !.n_tables = @ + 1,
                       !.row_cells = 0])

EndTable ==
    /\ doc.table # "none" /\ doc.sup = 0
    /\ Fed(handle_endtag(parser, "table"),
           [doc EXCEPT !.table = "none", !.in_td = FALSE, !.sup_closed = FALSE])

StartCell(tag) ==
    /\ doc.table # "none" /\ doc.sup = 0 /\ ~doc.in_td /\ doc.n_cells < MaxCells
    /\ Fed(handle_starttag(parser, tag, <<>>),
           [doc EXCEPT !.in_td = TRUE, !.n_cells = @ + 1])

EndCell(tag) ==
    /\ doc.in_td /\ doc.sup = 0
    /\ Fed(handle_endtag(parser, tag),
           [doc EXCEPT !.in_td = FALSE, !.row_cells = @ + 1])

EndRow ==
    /\ doc.table # "none" /\ doc.sup = 0 /\ ~doc.in_td /\ doc.n_rows < MaxRows
    /\ Fed(handle_endtag(parser, "tr"),
           [doc EXCEPT !.n_rows = @ + 1, !.row_cells = 0])

StartSup ==
    /\ doc.n_sups < MaxSups
    /\ Fed(handle_starttag(parser, "sup", <<>>),
           [doc EXCEPT !.sup = @ + 1, !.n_sups = @ + 1])

EndSup ==
    /\ doc.sup > 0
    /\ Fed(handle_endtag(parser, "sup"),
           [doc EXCEPT !.sup = @ - 1, !.sup_closed = (doc.table # "none")])

StartInline(tag) ==
    /\ doc.table # "none" /\ doc.n_inline < MaxInline
    /\ Fed(handle_starttag(parser, tag, <<>>), [doc EXCEPT !.n_inline = @ + 1])

EndInline(tag) ==
    /\ doc.table # "none" /\ doc.n_inline < MaxInline
    /\ Fed(handle_endtag(parser, tag), [doc EXCEPT !.n_inline = @ + 1])

OtherStart(tag) == Fed(handle_starttag(parser, tag, <<>>), doc)

OtherEnd(tag) ==
    /\ tag # "tr"
    /\ Fed(handle_endtag(parser, tag), doc)

CharData(text) ==
    /\ doc.n_data < MaxData
    /\ Fed(handle_data(parser, text), [doc EXCEPT !.n_data = @ + 1])

ParserNext ==
    \/ StartTable(WIKITABLE, "wiki")
    \/ \E attrs \in PLAIN_TABLES : StartTable(attrs, "plain")
    \/ StartTable(VALUELESS_CLASS, "plain")
    \/ EndTable
    \/ \E tag \in CellTags : StartCell(tag)
    \/ \E tag \in CellTags : EndCell(tag)
    \/ EndRow
    \/ StartSup
    \/ EndSup
    \/ \E tag \in InlineTags : StartInline(tag)
    \/ \E tag \in InlineTags : EndInline(tag)
    \/ \E tag \in OtherTags : OtherStart(tag)
    \/ \E tag \in OtherTags : OtherEnd(tag)
    \/ \E text \in TextAt(doc) : CharData(text)

-----------------------------------------------------------------------------
(* The network.  requests.get either raises RequestException or returns a  *)
(* response; the body is whatever the server sent.                         *)

\* c * n
RECURSIVE Repeat(_, _)
Repeat(c, n) ==
    IF n <= 0 THEN ""
    ELSE IF n % 2 = 0 THEN LET half == Repeat(c, n \div 2) IN half \o half
    ELSE c \o Repeat(c, n - 1)

MaxSendable == 400

Cell(tag, text) == <<StartTag(tag, <<>>), Data(text), EndTag(tag)>>

Row(tag, texts) ==
    LET RECURSIVE Cells(_)
        Cells(ts) == IF ts = <<>> THEN <<>> ELSE Cell(tag, Head(ts)) \o Cells(Tail(ts))
    IN  <<StartTag("tr", <<>>)>> \o Cells(texts) \o <<EndTag("tr")>>

\* A value whose rendered line passes the sendable length, in two words.
LONG_NOTES == Repeat("x", MaxSendable - 54) \o " " \o Repeat("y", 70)

\* The rendered page: generic TLDs with a footnote, a dash and a row that
\* names no TLD, then the internationalized TLDs under other headings.
WIKI_PAGE ==
    <<Data("Top-level domains"), StartTag("table", <<Attr("class", "infobox")>>)>>
    \o Row("td", <<"Part of a series">>)
    \o <<EndTag("table"), StartTag("table", WIKITABLE)>>
    \o Row("th", <<"Name", "Notes", "Entity", "IDN">>)
    \o <<StartTag("tr", <<>>), StartTag("td", <<>>), Data(" .RU"),
         StartTag("sup", <<>>), Data("[1]"), EndTag("sup"), Data("\n"), EndTag("td")>>
    \o Cell("td", "See .su") \o Cell("td", "Russia") \o Cell("td", EM_DASH)
    \o <<EndTag("tr")>>
    \o Row("td", <<"Name", "", "", "">>)
    \o Row("td", <<".com", LONG_NOTES, "commercial", "Yes">>)
    \o <<EndTag("table"), StartTag("table", WIKITABLE)>>
    \o Row("th", <<"DNS name", "IDN ccTLD", "Comments">>)
    \o <<StartTag("tr", <<>>)>> \o Cell("td", "xn--p1ai") \o Cell("td", ".%&")
    \o <<StartTag("td", <<>>), StartTag("b", <<>>), Data("Cyrillic"), EndTag("b"),
         Data(" script "), EndTag("td"), EndTag("tr"), EndTag("table")>>

\* A page with a wikitable that has no row at all.
EMPTY_TABLE_PAGE ==
    <<Data("Top-level domains"), StartTag("table", WIKITABLE), EndTag("table")>>

\* A page without any table (the article was moved or blanked).
NO_TABLE_PAGE == <<Data("This page is a redirect")>>

\* What the two GETs can give.  kind: "error" (RequestException), for the
\* list "text" with the body; for the data "not_json" (json() raises
\* ValueError), "no_key" (an object without "parse" or without "text", such
\* as the API's own error object), "not_object" (an array, or "parse" that
\* holds a string or null) and "page" with the markup of parse.text.
Response(kind, text, markup) == [kind |-> kind, text |-> text, markup |-> markup]

IANA_LIST == "# Version 2026110100, Last Updated Sun Nov  1 07:07:01 2026 UTC\nCOM\nRU\nXN--P1AI\n"

ListResponses ==
    { Response("error", "", <<>>),
      Response("text", IANA_LIST, <<>>),
      Response("text", "", <<>>),
      Response("text", "# maintenance\n", <<>>) }

DataResponses ==
    { Response("error", "", <<>>),
      Response("not_json", "", <<>>),
      Response("no_key", "", <<>>),
      Response("not_object", "", <<>>),
      Response("page", "", WIKI_PAGE),
      Response("page", "", EMPTY_TABLE_PAGE),
      Response("page", "", NO_TABLE_PAGE) }

\* str.splitlines() for "\n" line ends.
RECURSIVE SplitLines(_)
SplitLines(text) ==
    IF text = "" THEN <<>>
    ELSE LET line == SpanNot(text, "\n")
             rest == SubSeq(text, Len(line) + 1, Len(text))
         IN  <<line>> \o SplitLines(IF rest = "" THEN "" ELSE Tail(rest))

\* Lines 227-231
RECURSIVE ParseList(_)
ParseList(lines) ==
    IF lines = <<>> THEN <<>>
    ELSE IF StartsWith(Head(lines), "#") THEN ParseList(Tail(lines))
    ELSE <<Lower(Head(lines))>> \o ParseList(Tail(lines))

-----------------------------------------------------------------------------
(* bot.memory, the clock and the two callables.  Sopel runs the interval   *)
(* job and each command in a thread of its own, so the steps of the timer  *)
(* and of a command interleave; a step is the code between two accesses of *)
(* bot.memory that another thread can observe.                             *)

\* datetime carries fractions of a second: the clock counts ticks.
TicksPerSecond == 2

Second == TicksPerSecond
Day == 24 * 60 * 60 * Second
STALE_DAYS == 7
Week == STALE_DAYS * Day

MaxWeeks == 1

\* Time is counted from 2000-01-01 00:00:00, the default timestamp of lines
\* 43 and 47.  The bot is loaded more than a week after that date, at an
\* instant that is not a whole second.
Boot == Week + 1

\* The instants the clock is read at: the load, six days later, one second
\* before the first week ends, and the end of each week.
ClockPoints ==
    { Boot + d : d \in {0, (STALE_DAYS - 1) * Day, Week - Second}
                        \cup {w * Week : w \in 1..MaxWeeks} }

Threads == {"timer", "cmd"}

CacheOf(which) == IF which = "list" THEN "tld_list_cache" ELSE "tld_data_cache"
\* Lines 199-202 and 233, 262 with one timestamp for both datasets.
UpdatedOfList(which) == "tld_list_cache_updated"

UpdatedOf(which) ==
    IF which = "list" THEN "tld_list_cache_updated" ELSE "tld_data_cache_updated"

\* timedelta.days of (now - then): whole days, rounded down.
DaysOf(since) == since \div Day

\* The locals of a callable.  was_empty and requested are not variables of
\* the code: they record that line 285 found the list cache empty and that
\* the _update_tld_data it called sent its GET.
NoFrame ==
    [which |-> "", ret |-> "", now |-> 0, tld |-> "",
     was_empty |-> FALSE, requested |-> FALSE]

\* What a step does outside the process: "get" (a request is sent),
\* "response" (text: the kind of response it got), a message handed to
\* bot.reply or bot.say ("needs_input", "not_valid", "no_details", "line"),
\* "exception" (exc leaves the callable from raised_in), or nothing.
Io(t, kind, text) ==
    [thread |-> t, kind |-> kind, text |-> text, exc |-> "none", raised_in |-> ""]
Raised(t, exc, where) ==
    [thread |-> t, kind |-> "exception", text |-> "", exc |-> exc, raised_in |-> where]
Silent == Io("", "none", "")

\* setup() on a store that holds nothing: the defaults of lines 40-47.
MainInit ==
    /\ now = Boot
    /\ memory = [tld_list_cache |-> <<>>, tld_list_cache_updated |-> 0,
                 tld_data_cache |-> <<>>, tld_data_cache_updated |-> 0]
    /\ pc = [t \in Threads |-> "idle"]
    /\ frame = [t \in Threads |-> NoFrame]
    /\ io = Silent

\* get_processed_data has not been called.
NotProcessed == [value |-> <<>>, exc |-> "pending"]

\* bot.db holds no value of the plugin.
NoValue == [set |-> FALSE, value |-> <<>>]
EmptyDb ==
    [tld_list_cache |-> NoValue, tld_list_cache_updated |-> NoValue,
     tld_data_cache |-> NoValue, tld_data_cache_updated |-> NoValue]

\* bot.memory without the plugin's keys (lines 71-79).
NoMemory == <<>>

\* The plugin is set up and has not been shut down before.
SetUp == [phase |-> "set up", before |-> NoMemory]

\* gettld has sorted no record's fields.
NoFields == [tld |-> "", fields |-> <<>>]

RestInit ==
    /\ processed = NotProcessed
    /\ field_order = NoFields
    /\ db = EmptyDb
    /\ plugin = SetUp

Init ==
    /\ parser = ParserInit
    /\ parser_exc = "none"
    /\ doc = DocStart
    /\ MainInit
    /\ RestInit

SpecParser == Init /\ [][ParserNext]_vars

-----------------------------------------------------------------------------
(* _update_tld_data(bot, which), lines 198-265, in three steps: the        *)
(* staleness check, the blocking GET with the parse and the replacement of *)
(* the cache, and the replacement of the timestamp.                        *)

\* A callable ends: after its reply, or by an exception that leaves it
\* (Sopel logs it and the thread ends).
Finish(t, last) ==
    /\ pc' = [pc EXCEPT ![t] = "idle"]
    /\ frame' = [frame EXCEPT ![t] = NoFrame]
    /\ io' = last

\* _update_tld_data(bot, which) is entered, to come back at ret.
Call(t, which, ret) ==
    /\ pc' = [pc EXCEPT ![t] = "check"]
    /\ frame' = [frame EXCEPT ![t] = [@ EXCEPT !.which = which, !.ret = ret]]

\* _update_tld_data returns to its caller.
Return(t) ==
    /\ pc' = [pc EXCEPT ![t] = frame[t].ret]
    /\ frame' = [frame EXCEPT ![t] = [@ EXCEPT !.which = "", !.ret = "", !.now = 0]]

\* Line 209 with <= for <: a cache of exactly seven days is kept.
IsFreshInclusive(since) == DaysOf(since) <= STALE_DAYS

\* Line 209 without the comparison: no cache is ever young enough.
IsFreshNever(since) == FALSE

\* Line 209 with the comparison turned round: every cache is kept.
IsFreshAlways(since) == DaysOf(since) < STALE_DAYS \/ DaysOf(since) >= STALE_DAYS

\* Line 209: the cache is young enough to be kept.
IsFresh(since) == DaysOf(since) < STALE_DAYS

\* Lines 199-215
update_check(t) ==
    /\ pc[t] = "check"
    /\ LET which == frame[t].which IN
       IF which \notin {"list", "data"}
       THEN Return(t) /\ io' = Silent
       ELSE LET then == memory[UpdatedOf(which)]
                since == now - then
            IN  IF IsFresh(since)
                THEN Return(t) /\ io' = Silent
                ELSE /\ pc' = [pc EXCEPT ![t] = "fetch"]
                     /\ frame' = [frame EXCEPT ![t] = [@ EXCEPT !.now = now,
                                                               !.requested = TRUE]]
                     /\ io' = Io(t, "get", which)
    /\ UNCHANGED <<now, memory, pvars, xvars, dvars>>

\* What the GET and the parse come to: "return" (the failure was logged),
\* "store" with the new dataset, or "raise" with the exception that leaves
\* _update_tld_data.
Outcome(next, value, exc) == [next |-> next, value |-> value, exc |-> exc]

\* Lines 217-233 without the return of line 225: the failed request goes
\* on to the replacement, with nothing fetched.
fetch_list_clears(r) ==
    IF r.kind = "error" THEN Outcome("store", <<>>, "none")
    ELSE Outcome("store", ParseList(SplitLines(r.text)), "none")

\* Lines 217-233 publishing the list while it is being built: the last
\* line is not in it yet.
fetch_list_partial(r) ==
    IF r.kind = "error" THEN Outcome("return", <<>>, "none")
    ELSE LET tld_list == ParseList(SplitLines(r.text)) IN
         Outcome("store", SubSeq(tld_list, 1, Len(tld_list) - 1), "none")

\* Lines 217-233
fetch_list(r) ==
    IF r.kind = "error" THEN Outcome("return", <<>>, "none")
    ELSE Outcome("store", ParseList(SplitLines(r.text)), "none")

\* Lines 235-262
fetch_data(r) ==
    IF r.kind \in {"error", "not_json", "no_key"} THEN Outcome("return", <<>>, "none")
    ELSE IF r.kind = "not_object" THEN Outcome("raise", <<>>, "TypeError")
    ELSE LET fed == feed(ParserInit, r.markup) IN
         IF fed.exc # "none" THEN Outcome("raise", <<>>, fed.exc)
         ELSE LET tld_data == get_processed_data(fed.p) IN
              IF tld_data.exc # "none" THEN Outcome("raise", <<>>, tld_data.exc)
              ELSE Outcome("store", tld_data.value, "none")

\* The outcome of each response the model's network can give.
ListOutcomes == [r \in ListResponses |-> fetch_list(r)]
DataOutcomes == [r \in DataResponses |-> fetch_data(r)]

update_fetch(t, r) ==
    /\ pc[t] = "fetch"
    /\ r \in (IF frame[t].which = "list" THEN ListResponses ELSE DataResponses)
    /\ LET which == frame[t].which
           o == IF which = "list" THEN ListOutcomes[r] ELSE DataOutcomes[r]
       IN  IF o.next = "raise"
           THEN /\ Finish(t, Raised(t, o.exc, "_update_tld_data"))
                /\ UNCHANGED memory
           ELSE IF o.next = "store"
           THEN /\ memory' = [memory EXCEPT ![CacheOf(which)] = o.value]
                /\ pc' = [pc EXCEPT ![t] = "stamp"]
                /\ io' = Io(t, "response", r.kind)
                /\ UNCHANGED frame
           ELSE /\ Return(t)
                /\ io' = Io(t, "response", r.kind)
                /\ UNCHANGED memory
    /\ UNCHANGED <<now, pvars, xvars, dvars>>

\* Lines 234 and 263
update_stamp(t) ==
    /\ pc[t] = "stamp"
    /\ memory' = [memory EXCEPT ![UpdatedOf(frame[t].which)] = frame[t].now]
    /\ Return(t)
    /\ io' = Silent
    /\ UNCHANGED <<now, pvars, xvars, dvars>>

-----------------------------------------------------------------------------
(* update_caches, lines 268-271: the hourly job.                           *)

update_caches(t) ==
    /\ t = "timer" /\ pc[t] = "idle"
    /\ Call(t, "list", "tick_data")
    /\ io' = Silent
    /\ UNCHANGED <<now, memory, pvars, xvars, dvars>>

update_caches_data(t) ==
    /\ pc[t] = "tick_data"
    /\ Call(t, "data", "tick_end")
    /\ io' = Silent
    /\ UNCHANGED <<now, memory, pvars, xvars, dvars>>

update_caches_end(t) ==
    /\ pc[t] = "tick_end"
    /\ Finish(t, Silent)
    /\ UNCHANGED <<now, memory, pvars, xvars, dvars>>

-----------------------------------------------------------------------------
(* gettld, lines 277-328: the .tld command.                                *)

NonAscii == "~_%&"

LABEL_LIMIT == 64

\* encodings.idna.ToASCII(label).decode('utf-8'): an ASCII label is
\* returned as it is when it has 1 to 63 characters and raises UnicodeError
\* otherwise; another label is nameprepped and punycoded, here for the one
\* internationalized TLD the model's alphabet spells.
ToASCII(label) ==
    IF \A i \in 1..Len(label) : ~InStr(Char(label, i), NonAscii)
    THEN IF 0 < Len(label) /\ Len(label) < LABEL_LIMIT
         THEN [value |-> label, exc |-> "none"]
         ELSE [value |-> "", exc |-> "UnicodeError"]
    ELSE CASE label = "%&" -> [value |-> "xn--p1ai", exc |-> "none"]

InList(name, tld_list) == \E i \in 1..Len(tld_list) : tld_list[i] = name

MovedLast(field) == StartsWith(field, "Notes") \/ StartsWith(field, "Comments")

\* SelectSeq with a named test: the fields for which MovedLast is `last`.
RECURSIVE FieldsWhere(_, _)
FieldsWhere(fields, last) ==
    IF fields = <<>> THEN <<>>
    ELSE IF MovedLast(Head(fields)) = last
         THEN <<Head(fields)>> \o FieldsWhere(Tail(fields), last)
         ELSE FieldsWhere(Tail(fields), last)

\* Lines 313-315 with the key negated: the matching fields come first.
SortedFieldsFirst(record) ==
    FieldsWhere(Keys(record), TRUE) \o FieldsWhere(Keys(record), FALSE)

\* Lines 313-315: list.sort is stable and False sorts before True.
SortedFields(record) ==
    FieldsWhere(Keys(record), FALSE) \o FieldsWhere(Keys(record), TRUE)

\* Lines 317-321
RECURSIVE Items(_, _)
Items(fields, record) ==
    IF fields = <<>> THEN <<>>
    ELSE LET value == DictGet(record, Head(fields)) IN
         IF value # ""
         THEN <<Head(fields) \o ": " \o value>> \o Items(Tail(fields), record)
         ELSE Items(Tail(fields), record)

RECURSIVE Join(_, _)
Join(sep, items) ==
    IF items = <<>> THEN ""
    ELSE IF Len(items) = 1 THEN Head(items)
    ELSE Head(items) \o sep \o Join(sep, Tail(items))

\* len(text.encode('utf-8'))
Utf8Len(text) ==
    Len(text) + 2 * Cardinality({i \in 1..Len(text) : InStr(Char(text, i), "~_")})
              + Cardinality({i \in 1..Len(text) : InStr(Char(text, i), "%&")})

\* text.rfind(' ', 0, end), counted from 1: 0 when there is none.
RFindSpace(text, end) ==
    LET at == {i \in 1..Min(end, Len(text)) : Char(text, i) = " "}
    IN  IF at = {} THEN 0 ELSE CHOOSE i \in at : \A j \in at : j <= i

\* tools.get_sendable_message(text, max_length=400): the usable prefix, of
\* at most max_length bytes and cut at a space where there is one, and the
\* excess.
RECURSIVE Split(_, _, _)
Split(text, excess, unicode_max_length) ==
    IF Utf8Len(text) <= MaxSendable
    THEN [usable |-> text, excess |-> LStrip(excess, Whitespace)]
    ELSE LET last_space == RFindSpace(text, unicode_max_length) IN
         IF last_space = 0
         THEN Split(SubSeq(text, 1, unicode_max_length),
                    SubSeq(text, unicode_max_length + 1, Len(text)) \o excess,
                    unicode_max_length - 1)
         ELSE Split(SubSeq(text, 1, last_space - 1),
                    SubSeq(text, last_space, Len(text)) \o excess,
                    unicode_max_length)

get_sendable_message(text) == Split(text, "", MaxSendable)

ELLIPSIS == " [_]"

\* Lines 323-326
Render(record) ==
    LET message == Join(" | ", Items(SortedFields(record), record))
        split == get_sendable_message(message)
    IN  IF split.excess # "" THEN split.usable \o ELLIPSIS ELSE message

Arg(text) == [given |-> TRUE, text |-> text]
NoArg == [given |-> FALSE, text |-> ""]

\* trigger.group(2): nothing, or what was typed after ".tld ".
Args ==
    {NoArg} \cup {Arg(text) : text \in {"", ".", ".RU", "com", "zz", "%&", "xn--p1ai",
                                        Repeat("a", LABEL_LIMIT)}}

\* Lines 279-286
gettld(t, arg) ==
    /\ t = "cmd" /\ pc[t] = "idle"
    /\ IF ~arg.given \/ arg.text = ""
       THEN Finish(t, Io(t, "needs_input",
                         "You must provide a top-level domain to search."))
       ELSE LET tld == Lower(Strip(arg.text, "."))
                was_empty == memory.tld_list_cache = <<>>
                entered == [NoFrame EXCEPT !.tld = tld, !.was_empty = was_empty]
            IN  /\ io' = Silent
                /\ IF was_empty
                   THEN /\ pc' = [pc EXCEPT ![t] = "check"]
                        /\ frame' = [frame EXCEPT ![t] =
                               [entered EXCEPT !.which = "list", !.ret = "validate"]]
                   ELSE /\ pc' = [pc EXCEPT ![t] = "validate"]
                        /\ frame' = [frame EXCEPT ![t] = entered]
    /\ UNCHANGED <<now, memory, pvars, xvars, dvars>>

\* Lines 287-300
gettld_validate(t) ==
    /\ pc[t] = "validate"
    /\ LET tld == frame[t].tld
           tld_list == memory.tld_list_cache
           ascii == ToASCII(tld)
           validated == [frame[t] EXCEPT !.was_empty = FALSE, !.requested = FALSE]
       IN  IF ascii.exc # "none" THEN Finish(t, Raised(t, ascii.exc, "gettld"))
           ELSE IF ~(InList(tld, tld_list) \/ InList(ascii.value, tld_list))
           THEN Finish(t, Io(t, "not_valid",
                    "The top-level domain '" \o tld
                    \o "' is not in IANA's list of valid TLDs."))
           ELSE IF memory.tld_data_cache = <<>>
           THEN /\ pc' = [pc EXCEPT ![t] = "check"]
                /\ frame' = [frame EXCEPT ![t] =
                       [validated EXCEPT !.which = "data", !.ret = "lookup"]]
                /\ io' = Silent
           ELSE /\ pc' = [pc EXCEPT ![t] = "lookup"]
                /\ frame' = [frame EXCEPT ![t] = validated]
                /\ io' = Silent
    /\ UNCHANGED <<now, memory, pvars, xvars, dvars>>

\* Lines 301-328
gettld_lookup(t) ==
    /\ pc[t] = "lookup"
    /\ LET tld == frame[t].tld
           tld_data == memory.tld_data_cache
           record == IF DictHas(tld_data, tld) THEN DictGet(tld_data, tld) ELSE <<>>
       IN  IF record = <<>>
           THEN Finish(t, Io(t, "no_details",
                    "The top-level domain '" \o tld
                    \o "' exists, but no details about it could be found."))
           ELSE Finish(t, Io(t, "line", Render(record)))
    /\ UNCHANGED <<now, memory, pvars, xvars, dvars>>

\* Time passes.
Advance ==
    /\ \E later \in ClockPoints : later > now /\ now' = later
    /\ io' = Silent
    /\ UNCHANGED <<memory, pc, frame, pvars, xvars, dvars>>

Next ==
    \/ \E t \in Threads : update_caches(t)
    \/ \E t \in Threads : update_caches_data(t)
    \/ \E t \in Threads : update_caches_end(t)
    \/ \E t \in Threads : update_check(t)
    \/ \E t \in Threads : \E r \in ListResponses \cup DataResponses : update_fetch(t, r)
    \/ \E t \in Threads : update_stamp(t)
    \/ \E arg \in Args : gettld("cmd", arg)
    \/ \E t \in Threads : gettld_validate(t)
    \/ \E t \in Threads : gettld_lookup(t)
    \/ Advance

Spec == Init /\ [][Next]_vars

\* The responses from which a dataset is built and stored.
GoodList == Response("text", IANA_LIST, <<>>)
GoodData == Response("page", "", WIKI_PAGE)

\* The scheduler starts update_caches every hour and the job's thread runs
\* on; requests.get returns in the end; the servers answer with a good
\* response again and again.
Fairness ==
    /\ WF_vars(update_caches("timer"))
    /\ WF_vars(update_check("timer"))
    /\ WF_vars(update_caches_data("timer"))
    /\ WF_vars(update_caches_end("timer"))
    /\ WF_vars(update_stamp("timer"))
    /\ WF_vars(\E r \in ListResponses \cup DataResponses : update_fetch("timer", r))
    /\ SF_vars(update_fetch("timer", GoodList))
    /\ SF_vars(update_fetch("timer", GoodData))

\* The steps of Next, with one token for the command: which token is
\* looked up makes no difference to the updates.
LiveNext ==
    \/ \E t \in Threads : update_caches(t)
    \/ \E t \in Threads : update_caches_data(t)
    \/ \E t \in Threads : update_caches_end(t)
    \/ \E t \in Threads : update_check(t)
    \/ \E t \in Threads : \E r \in ListResponses \cup DataResponses : update_fetch(t, r)
    \/ \E t \in Threads : update_stamp(t)
    \/ gettld("cmd", Arg(".RU"))
    \/ \E t \in Threads : gettld_validate(t)
    \/ \E t \in Threads : gettld_lookup(t)
    \/ Advance

SpecLive == Init /\ [][LiveNext]_vars /\ Fairness

-----------------------------------------------------------------------------
(* The indexer and the field order on given tables (SpecIndex): the parser *)
(* has extracted some tables, get_processed_data (lines 145-195) indexes   *)
(* them, and gettld sorts the fields of a record it found (lines 313-315). *)

MaxIndexRows == 2
MaxColumns == 3

\* The text of an extracted cell: two suffix tokens, an IDN token, an empty
\* cell and the dash.
IndexCells == {".ru", ".SU", "xn--p1ai", "", EM_DASH}

HeadingRows ==
    { <<"Notes", "Name", "Entity">>,
      <<"Comments", "Notes", "IDN">>,
      <<"Name", "notes", "Comments">> }

IndexRowsOf(n) == [1..n -> [1..MaxColumns -> IndexCells]]

\* The parser after feed(): one table, a heading row and its data rows.
IndexInit ==
    /\ \E headings \in HeadingRows : \E n \in 0..MaxIndexRows :
         \E rows \in IndexRowsOf(n) :
            parser = [ParserInit EXCEPT !.tables = << <<headings>> \o rows >>]
    /\ parser_exc = "none"
    /\ doc = DocStart
    /\ MainInit
    /\ RestInit

\* Line 259: tld_data = parser.get_processed_data()
Process ==
    /\ processed.exc = "pending"
    /\ processed' = get_processed_data(parser)
    /\ UNCHANGED <<field_order, pvars, mvars, dvars>>

\* Lines 303-315: the record of a key is found and its fields are sorted.
SortFields(tld) ==
    /\ processed.exc = "none"
    /\ DictHas(processed.value, tld)
    /\ field_order' =
          [tld |-> tld, fields |-> SortedFields(DictGet(processed.value, tld))]
    /\ UNCHANGED <<processed, pvars, mvars, dvars>>

IndexNext ==
    \/ Process
    \/ \E tld \in {"ru", "su", "xn--p1ai"} : SortFields(tld)

SpecIndex == IndexInit /\ [][IndexNext]_vars

-----------------------------------------------------------------------------
(* setup and shutdown against the bot's database (SpecPersist).  bot.db    *)
(* keeps a plugin value as it was set; a text in DATE_FORMAT names a whole *)
(* second and is modelled by the number of seconds it names.               *)

\* Line 32 without the seconds: '%Y-%m-%d %H:%M'.
strftime_minutes(t) == (t \div (60 * Second)) * 60

\* datetime.strftime(DATE_FORMAT), line 32: the fraction of the second is
\* not written.
strftime(t) == t \div Second

\* datetime.strptime(text, DATE_FORMAT)
strptime(text) == text * Second

\* '2000-01-01 00:00:00'
DEFAULT_UPDATED == 0

get_plugin_value(key, default) == IF db[key].set THEN db[key].value ELSE default

Stored(v) == [set |-> TRUE, value |-> v]

\* Lines 39-53
setup ==
    /\ plugin.phase = "shut down"
    /\ memory' =
          [tld_list_cache |-> get_plugin_value("tld_list_cache", <<>>),
           tld_list_cache_updated |->
               strptime(get_plugin_value("tld_list_cache_updated", DEFAULT_UPDATED)),
           tld_data_cache |-> get_plugin_value("tld_data_cache", <<>>),
           tld_data_cache_updated |->
               strptime(get_plugin_value("tld_data_cache_updated", DEFAULT_UPDATED))]
    /\ plugin' = [plugin EXCEPT !.phase = "restored"]
    /\ UNCHANGED <<db, now, pc, frame, io, pvars, xvars>>

\* Lines 56-79
shutdown ==
    /\ plugin.phase # "shut down"
    /\ LET list_saved ==
               IF memory.tld_list_cache # <<>>
               THEN [db EXCEPT
                       !.tld_list_cache = Stored(memory.tld_list_cache),
                       !.tld_list_cache_updated =
                           Stored(strftime(memory.tld_list_cache_updated))]
               ELSE db
       IN  db' = IF memory.tld_data_cache # <<>>
                 THEN [list_saved EXCEPT
                         !.tld_data_cache = Stored(memory.tld_data_cache),
                         !.tld_data_cache_updated =
                             Stored(strftime(memory.tld_data_cache_updated))]
                 ELSE list_saved
    /\ memory' = NoMemory
    /\ plugin' = [phase |-> "shut down", before |-> memory]
    /\ UNCHANGED <<now, pc, frame, io, pvars, xvars>>

\* What the caches hold when the plugin is shut down, and what an earlier
\* run left in the database.
PersistLists == {<<>>, <<"com", "ru">>}
PersistData == {<<>>, <<Item("ru", <<Item("Name", ".ru"), Item("Entity", "Russia")>>)>>}
PersistStamps == {DEFAULT_UPDATED, Boot, Boot + 59 * Second}
PersistDbs ==
    {EmptyDb,
     [tld_list_cache |-> Stored(<<"com">>),
      tld_list_cache_updated |-> Stored(strftime(Week)),
      tld_data_cache |-> NoValue, tld_data_cache_updated |-> NoValue]}

PersistInit ==
    /\ parser = ParserInit
    /\ parser_exc = "none"
    /\ doc = DocStart
    /\ now = Boot + Week
    /\ \E l \in PersistLists : \E d \in PersistData :
         \E lu \in PersistStamps : \E du \in PersistStamps :
            memory = [tld_list_cache |-> l, tld_list_cache_updated |-> lu,
                      tld_data_cache |-> d, tld_data_cache_updated |-> du]
    /\ pc = [t \in Threads |-> "idle"]
    /\ frame = [t \in Threads |-> NoFrame]
    /\ io = Silent
    /\ processed = NotProcessed
    /\ field_order = NoFields
    /\ db \in PersistDbs
    /\ plugin = SetUp

PersistNext ==
    \/ shutdown
    \/ setup

SpecPersist == PersistInit /\ [][PersistNext]_vars

-----------------------------------------------------------------------------
(* Properties of the caches and of gettld, under Spec.                     *)

Callers == {"tick_data", "tick_end", "validate", "lookup"}

SevenDays == 7 * 24 * 60 * 60 * Second

\* C1: when _update_tld_data finds a dataset stale and the request raises
\* RequestException, neither step of the call changes a cache or a
\* timestamp, and the call returns to its caller without an exception.
FetchFailureKeepsCache ==
    [][\A t \in Threads :
        /\ (pc[t] = "check" /\ pc'[t] # "check") => memory' = memory
        /\ (pc[t] = "fetch" /\ io' = Io(t, "response", "error"))
              => /\ memory' = memory
                 /\ pc'[t] = frame[t].ret
                 /\ pc'[t] \in Callers]_vars

\* C1, its case: a request has just failed while both datasets had been
\* fetched before, and the caller goes on.
FetchFailedWithCache ==
    /\ io.kind = "response" /\ io.text = "error"
    /\ pc[io.thread] \in Callers
    /\ memory.tld_list_cache # <<>> /\ memory.tld_list_cache_updated > 0
    /\ memory.tld_data_cache # <<>> /\ memory.tld_data_cache_updated > 0

\* C2: no failure while decoding or parsing a response leaves
\* _update_tld_data: whatever the body, the call returns normally.
ParseFailuresSwallowed ==
    ~(io.kind = "exception" /\ io.raised_in = "_update_tld_data")

\* C6: the line gettld hands to bot.say is no longer, in bytes, than the
\* maximum get_sendable_message allows for one message.
SentLineBounded ==
    io.kind = "line" => Utf8Len(io.text) <= MaxSendable

\* C7: gettld ends with one of needs-input, not-a-valid-TLD,
\* valid-but-no-details or a rendered line, never with an exception.
GettldTotal ==
    (io.thread = "cmd" /\ pc["cmd"] = "idle" /\ io.kind # "none")
        => io.kind \in {"needs_input", "not_valid", "no_details", "line"}

ListNonEmptyAfterFetch ==
    memory.tld_list_cache_updated > 0 => memory.tld_list_cache # <<>>

\* C10: the staleness check sends the GET iff now - updatedAt is at least
\* seven whole days: at 7 days 0 seconds it does, at 6 days and at 6 days
\* 23:59:59 it returns and leaves dataset and timestamp as they are.
StaleAtSevenDays ==
    [][\A t \in Threads :
        (pc[t] = "check" /\ pc'[t] # "check")
            => LET since == now - memory[UpdatedOf(frame[t].which)] IN
               /\ (pc'[t] = "fetch") <=> (since >= SevenDays)
               /\ (pc'[t] = "fetch") <=> (io' = Io(t, "get", frame[t].which))
               /\ since < SevenDays => (memory' = memory /\ pc'[t] = frame[t].ret)]_vars

\* C10, its case: a GET was sent for a dataset exactly 7 days 0 seconds old.
FetchAtExactlySevenDays ==
    \E t \in Threads :
        /\ pc[t] = "fetch" /\ io = Io(t, "get", frame[t].which)
        /\ frame[t].now - memory[UpdatedOf(frame[t].which)] = SevenDays

\* C13: for a non-empty normalized token, the validation step of gettld
\* goes on towards the record lookup iff the token or its IDNA form is in
\* the list cache, and otherwise replies 'not a valid TLD' with the
\* normalized token and ends.
ValidationDecides ==
    [][(pc["cmd"] = "validate" /\ pc'["cmd"] # "validate" /\ frame["cmd"].tld # "")
        => LET tld == frame["cmd"].tld
               idna == ToASCII(tld)
               valid == \/ InList(tld, memory.tld_list_cache)
                        \/ (idna.exc = "none" /\ InList(idna.value, memory.tld_list_cache))
           IN  IF valid
               THEN pc'["cmd"] \in {"check", "lookup"} /\ io' = Silent
               ELSE /\ pc'["cmd"] = "idle"
                    /\ io' = Io("cmd", "not_valid",
                                "The top-level domain '" \o tld
                                \o "' is not in IANA's list of valid TLDs.")]_vars

\* The datasets built from the whole of one response.
CompleteLists ==
    { ParseList(SplitLines(r.text)) : r \in {x \in ListResponses : x.kind = "text"} }

CompleteData ==
    { get_processed_data(feed(ParserInit, r.markup).p).value :
        r \in {x \in DataResponses :
                 /\ x.kind = "page"
                 /\ feed(ParserInit, x.markup).exc = "none"
                 /\ get_processed_data(feed(ParserInit, x.markup).p).exc = "none"} }

\* C16: under every interleaving of updates and gettld, each cache holds at
\* every instant either the dataset it started with (empty) or a dataset
\* built from the whole of one response, and each step that changes a cache
\* replaces it by such a dataset: no reader sees a partly built one.
AtomicReplacement ==
    [][/\ memory.tld_list_cache \in CompleteLists \cup {<<>>}
       /\ memory.tld_data_cache \in CompleteData \cup {<<>>}
       /\ memory'.tld_list_cache # memory.tld_list_cache
             => (memory'.tld_list_cache \in CompleteLists
                 /\ \E t \in Threads : pc[t] = "fetch" /\ pc'[t] = "stamp")
       /\ memory'.tld_data_cache # memory.tld_data_cache
             => (memory'.tld_data_cache \in CompleteData
                 /\ \E t \in Threads : pc[t] = "fetch" /\ pc'[t] = "stamp")]_vars

\* C16, its case: gettld is about to read the list while the timer's update
\* has replaced it and has not yet set the timestamp.
ReadDuringUpdate ==
    /\ pc["cmd"] = "validate" /\ frame["cmd"].was_empty
    /\ pc["timer"] = "stamp" /\ frame["timer"].which = "list"
    /\ memory.tld_list_cache = <<"com", "ru", "xn--p1ai">>
    /\ memory.tld_list_cache_updated = DEFAULT_UPDATED

Stale(which) == now - memory[UpdatedOf(which)] >= SevenDays

\* C17: a failed fetch leaves the dataset as stale as it was and every tick
\* that finds it stale sends the GET again; with ticks that keep occurring
\* and good responses that keep coming, a stale dataset is in the end
\* replaced and its timestamp is less than seven days old.
RetryUntilRefreshed ==
    /\ [][\A which \in {"list", "data"} :
            /\ (pc["timer"] = "fetch" /\ frame["timer"].which = which
                /\ io' \in {Io("timer", "response", k) : k \in {"error", "not_json", "no_key"}})
                  => /\ memory' = memory
                     /\ Stale(which) => Stale(which)'
                     /\ pc'["timer"] = frame["timer"].ret
            /\ (pc["timer"] = "check" /\ frame["timer"].which = which
                /\ pc'["timer"] # "check" /\ Stale(which))
                  => io' = Io("timer", "get", which)]_vars
    /\ \A which \in {"list", "data"} :
          Stale(which) ~> ~Stale(which)

\* C17, its case: the timer's fetch of the list has failed with nothing
\* cached, and the list is as stale as before.
TickFetchFailed ==
    /\ io = Io("timer", "response", "error")
    /\ pc["timer"] = "tick_data"
    /\ memory.tld_list_cache = <<>>
    /\ Stale("list")

\* C18: no step of an update of 'list' changes the data cache or its
\* timestamp, no step of an update of 'data' changes the list cache or its
\* timestamp, and in a tick a list update that is skipped or fails returns
\* to update_caches, whose next step is the staleness check of 'data'.
DatasetsIndependent ==
    [][\A t \in Threads :
        /\ (pc[t] \in {"check", "fetch", "stamp"} /\ pc'[t] # pc[t])
              => /\ frame[t].which = "list"
                    => /\ memory'.tld_data_cache = memory.tld_data_cache
                       /\ memory'.tld_data_cache_updated = memory.tld_data_cache_updated
                 /\ frame[t].which = "data"
                    => /\ memory'.tld_list_cache = memory.tld_list_cache
                       /\ memory'.tld_list_cache_updated = memory.tld_list_cache_updated
        /\ (pc[t] \in {"check", "fetch"} /\ frame[t].ret = "tick_data"
            /\ pc'[t] \notin {"check", "fetch", "stamp"})
              => pc'[t] = "tick_data"
        /\ (pc[t] = "tick_data" /\ pc'[t] # "tick_data")
              => /\ pc'[t] = "check"
                 /\ frame'[t].which = "data" /\ frame'[t].ret = "tick_end"]_vars

\* C18, its case: in one tick the GET for 'data' has been sent although the
\* list update before it left the list stale and empty, and the list has
\* its default timestamp while the data update runs.
DataTriedAfterListFailed ==
    /\ pc["timer"] = "fetch" /\ frame["timer"].which = "data"
    /\ io = Io("timer", "get", "data")
    /\ memory.tld_list_cache = <<>>
    /\ memory.tld_list_cache_updated = DEFAULT_UPDATED

\* C19: with overlapping updates too, every step that sets a dataset's
\* timestamp sets it at least seven days later than the value it replaces
\* (so the timestamp never decreases, and two replacements are never
\* recorded within seven days).
StampsAWeekApart ==
    [][\A t \in Threads :
        (pc[t] = "stamp" /\ pc'[t] # "stamp")
            => /\ frame[t].which = "list"
                  => memory'.tld_list_cache_updated - memory.tld_list_cache_updated
                        >= SevenDays
               /\ frame[t].which = "data"
                  => memory'.tld_data_cache_updated - memory.tld_data_cache_updated
                        >= SevenDays]_vars

-----------------------------------------------------------------------------
(* Properties of the parser, under SpecParser.                             *)

ExtractedCells ==
    { parser.tables[i][j][k] :
        <<i, j, k>> \in
            { x \in (1..Len(parser.tables)) \X (1..MaxRows) \X (1..MaxCells) :
                /\ x[2] <= Len(parser.tables[x[1]])
                /\ x[3] <= Len(parser.tables[x[1]][x[2]]) } }

\* C3: no text that occurred inside a table whose start tag has no class
\* containing 'wikitable' is among the extracted tables' cells.
OnlyWikitablesExtracted ==
    \A cell \in ExtractedCells : ~Contains(cell, "p") /\ ~Contains(cell, "q")

\* C4: no text that occurred between a <sup> start tag and its matching end
\* tag, nested superscripts included, is in an extracted table's cell.
SupTextNeverExtracted ==
    \A cell \in ExtractedCells : ~Contains(cell, "s") /\ ~Contains(cell, "q")

\* C5: in a wikitable, once a <sup> element has closed (inside a cell or
\* outside one), a cell that closes is appended to its row, a row that
\* closes is appended to the table's rows, and the table is appended to the
\* result at its end tag.
SupSuppressionEnds ==
    [][(doc.table = "wiki" /\ doc.sup_closed /\ doc.sup = 0 /\ doc'.sup = 0)
        => /\ (doc.in_td /\ ~doc'.in_td /\ doc'.table = "wiki")
                 => Len(parser'.current_row) = Len(parser.current_row) + 1
           /\ doc'.n_rows > doc.n_rows => Len(parser'.rows) = Len(parser.rows) + 1
           /\ doc'.table = "none" => Len(parser'.tables) = Len(parser.tables) + 1]_vars

\* C20: a row appended to an extracted table holds only cells that closed
\* in that table since the table's start tag or its last </tr>: nothing is
\* carried over from a table that ended with a row left open.
RowsHoldOwnCells ==
    [][(doc'.n_rows > doc.n_rows /\ Len(parser'.rows) = Len(parser.rows) + 1)
        => Len(parser'.rows[Len(parser'.rows)]) <= doc.row_cells]_vars

-----------------------------------------------------------------------------
(* Properties of the indexer and of the field order, under SpecIndex.      *)

\* The data rows of the extracted tables, as <<table, row>> positions.
DataRowsAt ==
    { x \in (1..Len(parser.tables)) \X (2..(MaxIndexRows + 1)) :
        x[2] <= Len(parser.tables[x[1]]) }

RowAt(x) == parser.tables[x[1]][x[2]]

HeadingsAt(x) == parser.tables[x[1]][1]

\* The '.suffix' token and the 'xn--' token of each cell text, lowercased.
PlainTokenOf == [cell \in IndexCells |-> Lower(r_tld(cell))]
IdnTokenOf == [cell \in IndexCells |-> Lower(r_idn(cell))]

\* The tokens of a row, by cell.
PlainTokens(row) == [i \in 1..Len(row) |-> PlainTokenOf[row[i]]]
IdnTokens(row) == [i \in 1..Len(row) |-> IdnTokenOf[row[i]]]

\* The first token of a row, "" when the row has none.
FirstToken(tokens) ==
    LET S == {i \in 1..Len(tokens) : tokens[i] # ""} IN
    IF S = {} THEN "" ELSE tokens[CHOOSE i \in S : \A j \in S : i <= j]

\* C11: in the index get_processed_data returns, the plain key and the IDNA
\* key found in one row map to the same record, whatever the other rows.
DualKeysSameRecord ==
    processed.exc = "none" =>
        \A x \in DataRowsAt :
            LET key == FirstToken(PlainTokens(RowAt(x)))
                idn_key == FirstToken(IdnTokens(RowAt(x)))
            IN  (key # "" /\ idn_key # "")
                    => DictGet(processed.value, key) = DictGet(processed.value, idn_key)

\* The keys the rows yield: the first token of each kind of each row.
RowKeysAt(x) ==
    {FirstToken(PlainTokens(RowAt(x))), FirstToken(IdnTokens(RowAt(x)))} \ {""}

\* The last of the rows S in the order of the tables.
LastRow(S) ==
    CHOOSE x \in S : \A y \in S : y[1] < x[1] \/ (y[1] = x[1] /\ y[2] <= x[2])

\* The record holds exactly the columns of the row that have a heading and
\* a value that is neither empty nor the dash.
RecordOfRow(record, x) ==
    LET n == Min(Len(HeadingsAt(x)), Len(RowAt(x))) IN
    /\ \A c \in 1..n :
          (RowAt(x)[c] \notin {"", EM_DASH})
              <=> (\E i \in 1..Len(record) :
                      record[i] = Item(HeadingsAt(x)[c], RowAt(x)[c]))
    /\ \A i \in 1..Len(record) :
          \E c \in 1..n : record[i] = Item(HeadingsAt(x)[c], RowAt(x)[c])

\* C12 as claimed: every '.suffix' token and every 'xn--' token found in a
\* data row is a key of the index.
KeyedByEveryToken ==
    processed.exc = "none" =>
        \A x \in DataRowsAt : \A c \in 1..Len(RowAt(x)) :
            /\ PlainTokens(RowAt(x))[c] # ""
                  => DictHas(processed.value, PlainTokens(RowAt(x))[c])
            /\ IdnTokens(RowAt(x))[c] # ""
                  => DictHas(processed.value, IdnTokens(RowAt(x))[c])

\* C12 as amended: the keys of the index are the first '.suffix' token and
\* the first 'xn--' token of each data row, lowercased; each key maps to the
\* record of the last row that yields it, which holds the row's cells under
\* their headings without the empty and the dash values; a row without a
\* token adds nothing and the rows after it are still indexed.
IndexedByFirstTokens ==
    processed.exc = "none" =>
        LET keys == [x \in DataRowsAt |-> RowKeysAt(x)] IN
        /\ {processed.value[i].key : i \in 1..Len(processed.value)}
              = UNION {keys[x] : x \in DataRowsAt}
        /\ \A i \in 1..Len(processed.value) :
              /\ RecordOfRow(processed.value[i].value,
                    LastRow({x \in DataRowsAt : processed.value[i].key \in keys[x]}))
              /\ \A j \in 1..Len(processed.value[i].value) :
                    processed.value[i].value[j].value \notin {"", EM_DASH}
              /\ \A j \in 1..Len(processed.value) :
                    processed.value[j].key = processed.value[i].key => j = i

\* C12, its case: the first data row has no token, the second has two
\* suffix tokens, an IDNA token or a dash, and has been indexed.
IndexedAfterKeylessRow ==
    /\ processed.exc = "none"
    /\ Len(parser.tables[1]) = 3
    /\ RowKeysAt(<<1, 2>>) = {}
    /\ RowAt(<<1, 2>>)[1] = EM_DASH
    /\ RowAt(<<1, 3>>) = <<".ru", ".SU", EM_DASH>>
    /\ DictHas(processed.value, "ru")

\* C14: the field order gettld renders is a stable partition of the
\* record's fields: every field once, those whose name does not start with
\* 'Notes' or 'Comments' first, and within each part the record's own order.
FieldsStablePartition ==
    field_order.tld # "" =>
        LET orig == Keys(DictGet(processed.value, field_order.tld))
            f == field_order.fields
            Moved(name) == StartsWith(name, "Notes") \/ StartsWith(name, "Comments")
            Pos(name) == CHOOSE i \in 1..Len(orig) : orig[i] = name
        IN  /\ Len(f) = Len(orig)
            /\ {f[i] : i \in 1..Len(f)} = {orig[i] : i \in 1..Len(orig)}
            /\ \A i \in 1..Len(f) : \A j \in 1..Len(f) :
                  i < j => /\ f[i] # f[j]
                           /\ Moved(f[i]) => Moved(f[j])
                           /\ (Moved(f[i]) <=> Moved(f[j])) => Pos(f[i]) < Pos(f[j])

\* C14, its case: a record whose first two fields are Comments and Notes
\* has been sorted: both went behind IDN and kept their order.
TwoFieldsMovedLast ==
    /\ field_order.tld # ""
    /\ Keys(DictGet(processed.value, field_order.tld)) = <<"Comments", "Notes", "IDN">>
    /\ field_order.fields = <<"IDN", "Comments", "Notes">>

-----------------------------------------------------------------------------
(* Properties of setup and shutdown, under SpecPersist.                    *)

\* C15: after shutdown and then setup against the same database, every
\* dataset that was not empty is restored exactly, and its timestamp is
\* restored equal to the original to the second.
RoundTrip ==
    plugin.phase = "restored" =>
        \A which \in {"list", "data"} :
            plugin.before[CacheOf(which)] # <<>>
                => /\ memory[CacheOf(which)] = plugin.before[CacheOf(which)]
                   /\ memory[UpdatedOf(which)] \div Second
                        = plugin.before[UpdatedOf(which)] \div Second
                   /\ memory[UpdatedOf(which)] <= plugin.before[UpdatedOf(which)]
                   /\ memory[UpdatedOf(which)] % Second = 0

\* C15, its case: both datasets were held, with timestamps that were not
\* whole seconds, and have been restored.
RestoredBoth ==
    /\ plugin.phase = "restored"
    /\ plugin.before.tld_list_cache # <<>>
    /\ plugin.before.tld_data_cache # <<>>
    /\ plugin.before.tld_list_cache_updated = Boot + 59 * Second
    /\ plugin.before.tld_data_cache_updated = Boot
    /\ memory.tld_list_cache = plugin.before.tld_list_cache
    /\ memory.tld_list_cache_updated = Week + 59 * Second

====
